---------------------------- MODULE Spec2Model ----------------------------
(***************************************************************************)
(* SENTINEL Cortex: the portfolio ledger (cortex/gym/exchange_mock.py) and *)
(* the simulation engine (cortex/gym/environment.py).                      *)
(*                                                                         *)
(* Numbers.  The program computes in double-precision floats; the model    *)
(* computes in exact rationals <<n, d>> (d > 0, lowest terms), i.e. the    *)
(* real-number semantics of the same expressions.                          *)
(*                                                                         *)
(* Units.  Money is counted in units of 0.01 USD (the minimal trade and    *)
(* minimal penalty threshold of the code), quantities in units of 1e-10    *)
(* of the asset (the dust threshold of the code), and prices in money      *)
(* units per quantity unit (1 = 1e8 USD per asset unit), so that           *)
(* quantity * price is money.  The thresholds 0.01 and 1e-10 are therefore *)
(* both the rational 1 in their own unit.  Scores, rewards and rates are   *)
(* dimensionless.                                                          *)
(***************************************************************************)
EXTENDS Integers, Sequences, FiniteSets, TLC

(***************************************************************************)
(* Bounds of the model.                                                    *)
(***************************************************************************)
\* Number of rows of the dataset handed to the engine.
NRows == 5
\* Direct ledger calls (LedgerSpec) stop after this many fills.
MaxTrades == 3

(***************************************************************************)
(* Exact rational arithmetic standing for the program's float arithmetic.  *)
(***************************************************************************)
Abs(x) == IF x < 0 THEN -x ELSE x

RECURSIVE GCD(_, _)
GCD(a, b) == IF b = 0 THEN a ELSE GCD(b, a % b)

\* The rational n/d in lowest terms with a positive denominator (d # 0).
Rat(n, d) ==
    LET s == IF d < 0 THEN -1 ELSE 1
        g == GCD(Abs(n), Abs(d))
    IN  <<(s * n) \div g, (s * d) \div g>>

Zero == Rat(0, 1)
One == Rat(1, 1)

\* Sums and comparisons go through the least common denominator, products
\* cancel common factors first, so that no intermediate value is larger than
\* the result needs.
Add(x, y) ==
    LET g == GCD(x[2], y[2])
    IN  Rat(x[1] * (y[2] \div g) + y[1] * (x[2] \div g), (x[2] \div g) * y[2])
Neg(x) == <<-x[1], x[2]>>
Sub(x, y) == Add(x, Neg(y))
Mul(x, y) ==
    LET g1 == GCD(Abs(x[1]), y[2])
        g2 == GCD(Abs(y[1]), x[2])
    IN  <<(x[1] \div g1) * (y[1] \div g2), (x[2] \div g2) * (y[2] \div g1)>>
\* 1/y, for y # 0
Inv(y) == IF y[1] < 0 THEN <<-y[2], -y[1]>> ELSE <<y[2], y[1]>>
Div(x, y) == Mul(x, Inv(y))
Lt(x, y) ==
    LET g == GCD(x[2], y[2])
    IN  x[1] * (y[2] \div g) < y[1] * (x[2] \div g)
Le(x, y) ==
    LET g == GCD(x[2], y[2])
    IN  x[1] * (y[2] \div g) <= y[1] * (x[2] \div g)
Gt(x, y) == Lt(y, x)
Ge(x, y) == Le(y, x)
Min(x, y) == IF Le(x, y) THEN x ELSE y
Max(x, y) == IF Ge(x, y) THEN x ELSE y

(***************************************************************************)
(* Program constants.                                                      *)
(***************************************************************************)
HOLD == 0
BUY == 1
SELL == 2
\* An action code outside {HOLD, BUY, SELL}.
UNKNOWN == 3

ACTION_NAMES(action) ==
    CASE action = HOLD -> "HOLD"
      [] action = BUY -> "BUY"
      [] action = SELL -> "SELL"
      [] OTHER -> "UNKNOWN"

\* Python's None, for an absent Fill.
None == [none |-> TRUE]
\* timestamp=None (or any falsy timestamp) of buy()/sell().
NoTimestamp == 0

\* 0.01 USD, the minimal buy amount, in money units.
MinTrade == One
\* 0.01 USD, the minimal hold penalty, in money units.
MinPenalty == One
\* 1e-10, the dust threshold, in quantity units.
Dust == One

ScoreMax == Rat(1000, 1)
GainWeight == Rat(100, 1)
\* losses weighted like gains
LossWeight_AsGain == Rat(100, 1)
LossWeight == Rat(150, 1)
PenaltyWeight == Rat(50, 1)

Symbols == {"BTCUSDT", "ETHUSDT"}

(***************************************************************************)
(* Position and Fill (dataclasses of exchange_mock.py).                    *)
(***************************************************************************)
Position(symbol) ==
    [symbol |-> symbol, quantity |-> Zero, avg_entry_price |-> Zero,
     total_invested |-> Zero]

\* any quantity above 0 taken as open
is_open_AnyQuantity(pos) == Gt(pos.quantity, Zero)

\* Position.is_open: `self.quantity > 1e-10`
is_open(pos) == Gt(pos.quantity, Dust)

value_at(pos, current_price) == Mul(pos.quantity, current_price)

Fill(timestamp, symbol, side, quantity, price, fee, total_cost) ==
    [timestamp |-> timestamp, symbol |-> symbol, side |-> side,
     quantity |-> quantity, price |-> price, fee |-> fee,
     total_cost |-> total_cost]

\* Values datetime.now() can take (later than every row's timestamp).
Clock == {NRows + 101, NRows + 102}

\* `timestamp or datetime.now()`: the values the Fill's timestamp can take.
FillTimestamps(timestamp) ==
    IF timestamp = NoTimestamp THEN Clock ELSE {timestamp}

(***************************************************************************)
(* ExchangeMock.  An exchange object is a record ex; every method is an    *)
(* operator from the object (and the arguments) to the object after the    *)
(* call and the value returned.                                            *)
(***************************************************************************)
ExchangeMock(initial_capital, fee_rate, slippage) ==
    [initial_capital |-> initial_capital, fee_rate |-> fee_rate,
     slippage |-> slippage, cash |-> initial_capital, positions |-> <<>>,
     trade_history |-> <<>>, realized_pnl |-> Zero]

ExchangeReset_KeepsHistory(ex) ==
    [ex EXCEPT !.cash = ex.initial_capital, !.positions = <<>>,
               !.realized_pnl = Zero]

\* ExchangeMock.reset
ExchangeReset(ex) ==
    [ex EXCEPT !.cash = ex.initial_capital, !.positions = <<>>,
               !.trade_history = <<>>, !.realized_pnl = Zero]

\* positions[symbol] = pos, the other entries kept.
SetPosition(positions, symbol, pos) ==
    [s \in (DOMAIN positions) \cup {symbol} |->
        IF s = symbol THEN pos ELSE positions[s]]

ClampToCash_NoClamp(usd_amount, cash) == usd_amount

\* `usd_amount = min(usd_amount, self.cash)`
ClampToCash(usd_amount, cash) == Min(usd_amount, cash)

\* the fill put in front of the history
RecordFill_Prepend(trade_history, fill) == <<fill>> \o trade_history

\* `self.trade_history.append(fill)`
RecordFill(trade_history, fill) == Append(trade_history, fill)

\* `execution_price = market_price * (1 + self.slippage)`
BuyExecutionPrice(market_price, slippage) == Mul(market_price, Add(One, slippage))

\* the fee charged on top of the amount invested
BuyFee_OnTop(usd_amount, fee_rate) ==
    Mul(Div(usd_amount, Add(One, fee_rate)), fee_rate)

\* `fee = usd_amount * self.fee_rate`
BuyFee(usd_amount, fee_rate) == Mul(usd_amount, fee_rate)

\* the entry price overwritten by the price of the last buy
BuyPosition_LastPrice(pos, quantity, execution_price, effective_usd) ==
    [pos EXCEPT !.avg_entry_price = execution_price,
                !.quantity = Add(pos.quantity, quantity),
                !.total_invested = Add(pos.total_invested, effective_usd)]

\* The position after a buy of `quantity` at `execution_price`.
BuyPosition(pos, quantity, execution_price, effective_usd) ==
    LET total_qty == Add(pos.quantity, quantity)
    IN  [pos EXCEPT
            !.avg_entry_price =
                IF Gt(total_qty, Zero)
                THEN Div(Add(Mul(pos.avg_entry_price, pos.quantity),
                             Mul(execution_price, quantity)), total_qty)
                ELSE pos.avg_entry_price,
            !.quantity = total_qty,
            !.total_invested = Add(pos.total_invested, effective_usd)]

\* ExchangeMock.buy: [ex |-> the exchange after the call, fill |-> Fill or None];
\* fill_ts is the value of `timestamp or datetime.now()`.
Buy(ex, symbol, usd_amount_in, market_price, fill_ts) ==
    IF Le(usd_amount_in, Zero) THEN [ex |-> ex, fill |-> None]
    ELSE
    LET usd_amount == ClampToCash(usd_amount_in, ex.cash) IN
    IF Lt(usd_amount, MinTrade) THEN [ex |-> ex, fill |-> None]
    ELSE
    LET execution_price == BuyExecutionPrice(market_price, ex.slippage)
        fee == BuyFee(usd_amount, ex.fee_rate)
        effective_usd == Sub(usd_amount, fee)
        quantity == Div(effective_usd, execution_price)
        pos0 == IF symbol \in DOMAIN ex.positions
                THEN ex.positions[symbol] ELSE Position(symbol)
        pos == BuyPosition(pos0, quantity, execution_price, effective_usd)
        fill == Fill(fill_ts, symbol, "BUY", quantity,
                     execution_price, fee, usd_amount)
    IN  [ex |-> [ex EXCEPT
                    !.cash = Sub(ex.cash, usd_amount),
                    !.positions = SetPosition(ex.positions, symbol, pos),
                    !.trade_history = RecordFill(ex.trade_history, fill)],
         fill |-> fill]

\* `execution_price = market_price * (1 - self.slippage)`
SellExecutionPrice(market_price, slippage) == Mul(market_price, Sub(One, slippage))

\* the fee charged on the net value
SellFee_OnNet(gross_value, fee_rate) ==
    Mul(Div(gross_value, Add(One, fee_rate)), fee_rate)

\* `fee = gross_value * self.fee_rate`
SellFee(gross_value, fee_rate) == Mul(gross_value, fee_rate)

\* `trade_pnl = net_value - cost_basis`
SellTradePnl(pos, quantity, net_value) ==
    Sub(net_value, Mul(pos.avg_entry_price, quantity))

\* the quantity reduced and nothing reset
SellPosition_NoReset(pos, quantity) ==
    [pos EXCEPT !.quantity = Sub(pos.quantity, quantity)]

\* The position after `quantity` of it was sold.
SellPosition(pos, quantity) ==
    LET left == Sub(pos.quantity, quantity)
    IN  IF Lt(left, Dust)
        THEN [pos EXCEPT !.quantity = Zero, !.avg_entry_price = Zero,
                         !.total_invested = Zero]
        ELSE [pos EXCEPT !.quantity = left]

\* ExchangeMock.sell; quantity_in = None sells the whole position.
Sell(ex, symbol, quantity_in, market_price, fill_ts) ==
    IF symbol \notin DOMAIN ex.positions THEN [ex |-> ex, fill |-> None]
    ELSE IF ~is_open(ex.positions[symbol]) THEN [ex |-> ex, fill |-> None]
    ELSE
    LET pos == ex.positions[symbol]
        quantity == IF quantity_in = None THEN pos.quantity
                    ELSE Min(quantity_in, pos.quantity)
    IN
    IF Lt(quantity, Dust) THEN [ex |-> ex, fill |-> None]
    ELSE
    LET execution_price == SellExecutionPrice(market_price, ex.slippage)
        gross_value == Mul(quantity, execution_price)
        fee == SellFee(gross_value, ex.fee_rate)
        net_value == Sub(gross_value, fee)
        trade_pnl == SellTradePnl(pos, quantity, net_value)
        fill == Fill(fill_ts, symbol, "SELL", quantity,
                     execution_price, fee, net_value)
    IN  [ex |-> [ex EXCEPT
                    !.realized_pnl = Add(ex.realized_pnl, trade_pnl),
                    !.cash = Add(ex.cash, net_value),
                    !.positions = SetPosition(ex.positions, symbol,
                                              SellPosition(pos, quantity)),
                    !.trade_history = RecordFill(ex.trade_history, fill)],
         fill |-> fill]

\* Sum of value_at over the open positions among `syms` (all priced).
RECURSIVE OpenValue(_, _, _)
OpenValue(positions, current_prices, syms) ==
    IF syms = {} THEN Zero
    ELSE LET s == CHOOSE t \in syms : TRUE
             rest == OpenValue(positions, current_prices, syms \ {s})
         IN  IF is_open(positions[s])
             THEN Add(rest, value_at(positions[s], current_prices[s]))
             ELSE rest

\* ExchangeMock.get_portfolio_value; current_prices is a function symbol -> price.
get_portfolio_value(ex, current_prices) ==
    Add(ex.cash,
        OpenValue(ex.positions, current_prices,
                  (DOMAIN ex.positions) \cap (DOMAIN current_prices)))

(***************************************************************************)
(* Inputs: the dataset and the configuration of one engine.                *)
(***************************************************************************)
Prices == {One, Rat(32, 1)}
\* (fee_rate, slippage): a frictionless exchange and one with both frictions.
Frictions == {<<Zero, Zero>>, <<Rat(1, 4), Rat(1, 4)>>}
\* (risk_per_trade_pct, hold_penalty_rate): all-in and half-way sizing.
Sizings == {<<One, One>>, <<Rat(1, 2), Rat(1, 2)>>}
InitialCapitals == {Rat(4, 1)}
\* The engine assumes at least window_size + 2 rows.  The wider window is
\* run with the frictionless all-in configuration only.
WindowSizes == {1, 2}
Actions == {HOLD, BUY, SELL, UNKNOWN}

\* sentiment_score of row i (0-based): -1/2, 0 or 1/2.
Sentiment(i) == Rat((i % 3) - 1, 2)

\* A time-ordered dataset with the given closes and volumes; row i (0-based)
\* is rows[i + 1].
VolumeDataset(closes, volumes) ==
    [k \in 1..Len(closes) |->
        [timestamp |-> k, close |-> closes[k], volume |-> volumes[k],
         sentiment_score |-> Sentiment(k - 1)]]

\* A dataset with the given closes, traded at unit volume in every row.
Dataset(closes) == VolumeDataset(closes, [k \in 1..Len(closes) |-> One])

\* Number of rows whose close differs from the close of the row before.
Turns(closes) == Cardinality({k \in 2..Len(closes) : closes[k] # closes[k - 1]})

\* The price paths of NRows rows over Prices that change price at most twice.
Datasets == {Dataset(c) : c \in {p \in [1..NRows -> Prices] : Turns(p) <= 2}}

Configs ==
    {c \in {[initial_capital |-> ic, fee_rate |-> f[1], slippage |-> f[2],
             risk_per_trade_pct |-> z[1], window_size |-> w, symbol |-> "BTCUSDT",
             hold_penalty_rate |-> z[2]] :
                ic \in InitialCapitals, f \in Frictions, z \in Sizings,
                w \in WindowSizes} :
        c.window_size = 1 \/ (c.fee_rate = Zero /\ c.risk_per_trade_pct = One)}

(***************************************************************************)
(* State: one TradingEnvironment and the ExchangeMock it owns.             *)
(***************************************************************************)
VARIABLES
    data,               \* self.data: the rows, data[i + 1] is row i
    cfg,                \* initial_capital, risk_per_trade_pct, window_size,
                        \* symbol, hold_penalty_rate (and the exchange's rates)
    exchange,           \* self.exchange
    current_step,       \* self.current_step, the cursor (0-based row index)
    done,               \* self.done
    equity_curve,       \* self.equity_curve, the value trajectory
    trade_pnls,         \* self.trade_pnls
    step_log,           \* self.step_log
    score,              \* self.score
    score_history,      \* self.score_history
    total_hold_penalty, \* self.total_hold_penalty
    result,             \* what the last call returned or raised
    everReset,          \* history: reset() has been called on this engine
    agent               \* the agent driving the engine in a backtest, or None

envVars == <<current_step, done, equity_curve, trade_pnls, step_log, score,
             score_history, total_hold_penalty>>
vars == <<data, cfg, exchange, current_step, done, equity_curve, trade_pnls,
          step_log, score, score_history, total_hold_penalty, result, everReset, agent>>

total_steps == Len(data)

\* dataset row i, 0-based (self.data.iloc[i])
Row(i) == data[i + 1]

\* {self.symbol: price}
PriceMap(price) == [s \in {cfg.symbol} |-> price]

\* self.data["returns"]: close.pct_change().fillna(0), at row i
Returns(i) ==
    IF i = 0 THEN Zero ELSE Sub(Div(Row(i).close, Row(i - 1).close), One)

\* quantity held of self.symbol, 0.0 when there is no position
PositionQty(ex) ==
    IF cfg.symbol \in DOMAIN ex.positions
    THEN ex.positions[cfg.symbol].quantity ELSE Zero

\* the close of the row after the cursor reported as the current price
GetObservation_NextClose(ex, idx, sc) ==
    LET start == IF idx - cfg.window_size > 0 THEN idx - cfg.window_size ELSE 0
    IN  [prices |-> [k \in 1..(idx - start) |-> Row(start + k - 1).close],
         volumes |-> [k \in 1..(idx - start) |-> Row(start + k - 1).volume],
         returns |-> [k \in 1..(idx - start) |-> Returns(start + k - 1)],
         current_price |-> Row(idx + 1).close,
         position |-> PositionQty(ex),
         portfolio_value |-> get_portfolio_value(ex, PriceMap(Row(idx).close)),
         cash |-> ex.cash,
         sentiment |-> Row(idx).sentiment_score,
         score |-> sc,
         timestamp |-> Row(idx).timestamp,
         step |-> idx]

\* the window taken one row later, so that it ends on the row at the cursor
GetObservation_IncludesCurrent(ex, idx, sc) ==
    LET start == IF idx - cfg.window_size > 0 THEN idx - cfg.window_size ELSE 0
    IN  [prices |-> [k \in 1..(idx - start) |-> Row(start + k).close],
         volumes |-> [k \in 1..(idx - start) |-> Row(start + k).volume],
         returns |-> [k \in 1..(idx - start) |-> Returns(start + k)],
         current_price |-> Row(idx).close,
         position |-> PositionQty(ex),
         portfolio_value |-> get_portfolio_value(ex, PriceMap(Row(idx).close)),
         cash |-> ex.cash,
         sentiment |-> Row(idx).sentiment_score,
         score |-> sc,
         timestamp |-> Row(idx).timestamp,
         step |-> idx]

\* TradingEnvironment._get_observation with the cursor at idx; of the window's
\* OHLCV columns, prices is the close column and volumes the volume column
GetObservation(ex, idx, sc) ==
    LET start == IF idx - cfg.window_size > 0 THEN idx - cfg.window_size ELSE 0
    IN  [prices |-> [k \in 1..(idx - start) |-> Row(start + k - 1).close],
         volumes |-> [k \in 1..(idx - start) |-> Row(start + k - 1).volume],
         returns |-> [k \in 1..(idx - start) |-> Returns(start + k - 1)],
         current_price |-> Row(idx).close,
         position |-> PositionQty(ex),
         portfolio_value |-> get_portfolio_value(ex, PriceMap(Row(idx).close)),
         cash |-> ex.cash,
         sentiment |-> Row(idx).sentiment_score,
         score |-> sc,
         timestamp |-> Row(idx).timestamp,
         step |-> idx]

\* The {} returned in place of an observation by the terminating step.
EmptyObservation == [empty |-> TRUE]

\* TradingEnvironment.__init__ on the data and configuration given
EngineNew ==
    /\ exchange = ExchangeMock(cfg.initial_capital, cfg.fee_rate, cfg.slippage)
    /\ current_step = 0
    /\ done = FALSE
    /\ equity_curve = <<>>
    /\ trade_pnls = <<>>
    /\ step_log = <<>>
    /\ score = ScoreMax
    /\ score_history = <<>>
    /\ total_hold_penalty = Zero
    /\ result = [op |-> "init", raised |-> "none"]
    /\ everReset = FALSE

EngineInit ==
    /\ data \in Datasets
    /\ cfg \in Configs
    /\ EngineNew

\* an engine constructed on its own, with no agent attached
Init ==
    /\ EngineInit
    /\ agent = None

(***************************************************************************)
(* TradingEnvironment.reset                                                *)
(***************************************************************************)
\* the cursor put one row too far
ResetCursor_NextRow == cfg.window_size + 1

\* The cursor after reset(): `self.current_step = self.window_size`
ResetCursor == cfg.window_size

\* The state of the engine's life cycle: never reset, running, or done.
EngineState ==
    IF done THEN "TERMINAL" ELSE IF everReset THEN "ACTIVE" ELSE "UNINITIALIZED"

Reset ==
    /\ current_step' = ResetCursor
    /\ done' = FALSE
    /\ exchange' = ExchangeReset(exchange)
    /\ equity_curve' = <<>>
    /\ trade_pnls' = <<>>
    /\ step_log' = <<>>
    /\ score' = ScoreMax
    /\ score_history' = <<>>
    /\ total_hold_penalty' = Zero
    /\ result' = [op |-> "reset", raised |-> "none",
                  observation |-> GetObservation(exchange', current_step', score'),
                  \* history: the state reset() was called in
                  called_in |-> EngineState]
    /\ everReset' = TRUE
    /\ UNCHANGED <<data, cfg>>

(***************************************************************************)
(* TradingEnvironment.step                                                 *)
(***************************************************************************)
StepInvalid_NoGuard == FALSE

\* The guard of step(): `if self.done: raise RuntimeError`
StepInvalid == done

\* `penalty = self.exchange.cash * self.hold_penalty_rate`
HoldPenalty(cash, hold_penalty_rate) == Mul(cash, hold_penalty_rate)

\* the threshold taken as inclusive
PenaltyApplies_AtLeast(penalty) == Ge(penalty, MinPenalty)

\* `if penalty > 0.01`
PenaltyApplies(penalty) == Gt(penalty, MinPenalty)

\* the whole portfolio value as the trade amount
TradeAmount_AllIn(prev_value, risk_per_trade_pct) == prev_value

\* `trade_amount = prev_value * self.risk_per_trade_pct`
TradeAmount(prev_value, risk_per_trade_pct) == Mul(prev_value, risk_per_trade_pct)

\* the fill's fee taken as the gain of the trade
RecordedTradePnl_FeeAsGain(fill) == Sub(Mul(fill.quantity, fill.price), fill.total_cost)

\* The value appended to trade_pnls for a SELL fill.
RecordedTradePnl(fill) == Sub(fill.total_cost, Mul(fill.quantity, fill.price))

\* `reward = (current_value - prev_value) / prev_value if prev_value > 0 else 0.0`
Reward(current_value, prev_value) ==
    IF Gt(prev_value, Zero) THEN Div(Sub(current_value, prev_value), prev_value)
    ELSE Zero

Clamp_NoFloor(x) == Min(ScoreMax, x)

\* `max(0.0, min(1000.0, self.score))`
Clamp(x) == Max(Zero, Min(ScoreMax, x))

\* The score after a step with this reward and hold penalty.
ScoreUpdate(sc, reward, hold_penalty, initial_capital) ==
    LET s1 == IF Gt(reward, Zero) THEN Add(sc, Mul(reward, GainWeight))
              ELSE IF Lt(reward, Zero) THEN Add(sc, Mul(reward, LossWeight))
              ELSE sc
        s2 == IF Gt(hold_penalty, Zero)
              THEN Sub(s1, Mul(Div(hold_penalty, initial_capital), PenaltyWeight))
              ELSE s1
    IN  Clamp(s2)

Terminated_OffByOne(cursor, nrows) == cursor >= nrows

\* `terminated = self.current_step >= len(self.data) - 1`, cursor already advanced
Terminated(cursor, nrows) == cursor >= nrows - 1

\* every action that is neither BUY nor SELL handled as a HOLD
ApplyAction_UnknownAsHold(ex, action, prev_value, price, fill_ts) ==
    IF action = BUY THEN
        LET r == Buy(ex, cfg.symbol,
                     TradeAmount(prev_value, cfg.risk_per_trade_pct),
                     price, fill_ts)
        IN  [ex |-> r.ex, fill |-> r.fill, hold_penalty |-> Zero, pnls |-> <<>>]
    ELSE IF action = SELL THEN
        LET r == Sell(ex, cfg.symbol, None, price, fill_ts)
        IN  [ex |-> r.ex, fill |-> r.fill, hold_penalty |-> Zero,
             pnls |-> IF r.fill # None THEN <<RecordedTradePnl(r.fill)>> ELSE <<>>]
    ELSE
        LET penalty == HoldPenalty(ex.cash, cfg.hold_penalty_rate)
        IN  IF PenaltyApplies(penalty)
            THEN [ex |-> [ex EXCEPT !.cash = Sub(ex.cash, penalty)],
                  fill |-> None, hold_penalty |-> penalty, pnls |-> <<>>]
            ELSE [ex |-> ex, fill |-> None, hold_penalty |-> Zero, pnls |-> <<>>]

\* The action of a step on the ledger:
\* [ex, fill, hold_penalty, pnls (values to append to trade_pnls)]
ApplyAction(ex, action, prev_value, price, fill_ts) ==
    IF action = HOLD THEN
        LET penalty == HoldPenalty(ex.cash, cfg.hold_penalty_rate)
        IN  IF PenaltyApplies(penalty)
            THEN [ex |-> [ex EXCEPT !.cash = Sub(ex.cash, penalty)],
                  fill |-> None, hold_penalty |-> penalty, pnls |-> <<>>]
            ELSE [ex |-> ex, fill |-> None, hold_penalty |-> Zero, pnls |-> <<>>]
    ELSE IF action = BUY THEN
        LET r == Buy(ex, cfg.symbol,
                     TradeAmount(prev_value, cfg.risk_per_trade_pct),
                     price, fill_ts)
        IN  [ex |-> r.ex, fill |-> r.fill, hold_penalty |-> Zero, pnls |-> <<>>]
    ELSE IF action = SELL THEN
        LET r == Sell(ex, cfg.symbol, None, price, fill_ts)
        IN  [ex |-> r.ex, fill |-> r.fill, hold_penalty |-> Zero,
             pnls |-> IF r.fill # None THEN <<RecordedTradePnl(r.fill)>> ELSE <<>>]
    ELSE [ex |-> ex, fill |-> None, hold_penalty |-> Zero, pnls |-> <<>>]

\* Each value step() computes is bound once, in the order the code computes it.
Step(action, fill_ts) ==
    IF StepInvalid THEN
        /\ result' = [op |-> "step", raised |-> "RuntimeError"]
        /\ UNCHANGED <<data, cfg, exchange, envVars, everReset>>
    ELSE IF current_step >= Len(data) THEN
        \* self.data.iloc[self.current_step] is out of bounds
        /\ result' = [op |-> "step", raised |-> "IndexError"]
        /\ UNCHANGED <<data, cfg, exchange, envVars, everReset>>
    ELSE
    \E row \in {Row(current_step)} :
    \E prev_value \in {get_portfolio_value(exchange, PriceMap(row.close))} :
    \E a \in {ApplyAction(exchange, action, prev_value, row.close, fill_ts)} :
    \E current_value \in {get_portfolio_value(a.ex, PriceMap(row.close))} :
    \E reward \in {Reward(current_value, prev_value)} :
    \E new_score \in {ScoreUpdate(score, reward, a.hold_penalty,
                                  cfg.initial_capital)} :
    \E new_total_penalty \in {Add(total_hold_penalty, a.hold_penalty)} :
    \E cursor \in {current_step + 1} :
    \E terminated \in {Terminated(cursor, Len(data))} :
        /\ exchange' = a.ex
        /\ total_hold_penalty' = new_total_penalty
        /\ trade_pnls' = trade_pnls \o a.pnls
        /\ equity_curve' = Append(equity_curve, current_value)
        /\ score' = new_score
        /\ score_history' = Append(score_history, new_score)
        /\ step_log' = Append(step_log,
               [timestamp |-> row.timestamp, action |-> ACTION_NAMES(action),
                price |-> row.close, portfolio_value |-> current_value,
                cash |-> a.ex.cash, position_qty |-> PositionQty(a.ex),
                reward |-> reward, score |-> new_score,
                hold_penalty |-> a.hold_penalty,
                sentiment |-> row.sentiment_score])
        /\ current_step' = cursor
        /\ done' = terminated
        /\ result' = [op |-> "step", action |-> action, raised |-> "none",
               observation |-> IF terminated THEN EmptyObservation
                               ELSE GetObservation(a.ex, cursor, new_score),
               reward |-> reward, terminated |-> terminated,
               info |-> [fill |-> a.fill, portfolio_value |-> current_value,
                         score |-> new_score, hold_penalty |-> a.hold_penalty,
                         total_hold_penalty |-> new_total_penalty,
                         step |-> cursor, total_steps |-> total_steps]]
        /\ UNCHANGED <<data, cfg, everReset>>

\* step() calling buy()/sell() without a timestamp
StepTimestamp_Omitted == NoTimestamp

\* The timestamp step() passes to buy()/sell(): that of the row at the cursor.
StepTimestamp ==
    IF current_step < Len(data) THEN Row(current_step).timestamp ELSE NoTimestamp

StepAny ==
    \E action \in Actions :
        \E fill_ts \in FillTimestamps(StepTimestamp) :
            Step(action, fill_ts) /\ UNCHANGED agent

\* reset() and step() called on the engine directly, with any action
Next == (Reset /\ UNCHANGED agent) \/ StepAny

Spec == Init /\ [][Next]_vars

(***************************************************************************)
(* Direct use of the ledger: buy, sell and reset called on an ExchangeMock *)
(* with arguments of the caller's choice (partial sells, sells of more     *)
(* than is held, several instruments, timestamp=None).                     *)
(***************************************************************************)
\* usd_amount arguments: not positive, below the minimum, small, above the cash
Amounts == {Zero, Rat(1, 2), One, Rat(8, 1)}
\* quantity arguments: sell all, below dust, partial, more than is held
Quantities == {None, Rat(1, 2), One, Rat(8, 1)}
\* timestamp arguments: direct callers leave the default, timestamp=None
Timestamps == {NoTimestamp}

LedgerInit ==
    /\ Init
    /\ data = Dataset([k \in 1..NRows |-> One])
    /\ cfg.risk_per_trade_pct = One
    /\ cfg.window_size = 1

LedgerBuyCall(symbol, usd_amount, market_price, fill_ts) ==
    /\ Len(exchange.trade_history) < MaxTrades
    /\ LET r == Buy(exchange, symbol, usd_amount, market_price, fill_ts)
       IN  /\ exchange' = r.ex
           /\ result' = [op |-> "buy", raised |-> "none", fill |-> r.fill]
    /\ UNCHANGED <<data, cfg, envVars, everReset, agent>>

LedgerSellCall(symbol, quantity, market_price, fill_ts) ==
    /\ Len(exchange.trade_history) < MaxTrades
    /\ LET r == Sell(exchange, symbol, quantity, market_price, fill_ts)
       IN  /\ exchange' = r.ex
           /\ result' = [op |-> "sell", raised |-> "none", fill |-> r.fill]
    /\ UNCHANGED <<data, cfg, envVars, everReset, agent>>

LedgerBuy ==
    \E symbol \in Symbols, usd_amount \in Amounts, market_price \in Prices,
       timestamp \in Timestamps :
        \E fill_ts \in FillTimestamps(timestamp) :
            LedgerBuyCall(symbol, usd_amount, market_price, fill_ts)

LedgerSell ==
    \E symbol \in Symbols, quantity \in Quantities, market_price \in Prices,
       timestamp \in Timestamps :
        \E fill_ts \in FillTimestamps(timestamp) :
            LedgerSellCall(symbol, quantity, market_price, fill_ts)

LedgerReset ==
    /\ exchange' = ExchangeReset(exchange)
    /\ result' = [op |-> "exchange.reset", raised |-> "none"]
    /\ UNCHANGED <<data, cfg, envVars, everReset, agent>>

LedgerNext == LedgerBuy \/ LedgerSell \/ LedgerReset

LedgerSpec == LedgerInit /\ [][LedgerNext]_vars

(***************************************************************************)
(* MetricsEngine (src/cortex/metrics.py): the analytics computed from a    *)
(* value trajectory and a list of trade P&Ls.  A numpy float is a rational *)
(* or one of the IEEE values +inf, -inf, nan, written with denominator 0.  *)
(***************************************************************************)
\* longest value trajectory drawn
MaxCurve == 4
\* longest trade P&L list drawn
MaxPnls == 3

Inf == <<1, 0>>
NegInf == <<-1, 0>>
NaN == <<0, 0>>
IsFinite(x) == x[2] # 0

\* numpy's `/` on finite floats: a zero divisor gives inf or nan and a warning
NpDiv(x, y) ==
    IF y[1] # 0 THEN Div(x, y)
    ELSE IF x[1] > 0 THEN Inf ELSE IF x[1] < 0 THEN NegInf ELSE NaN

\* `seq[-1]`
Last(seq) == seq[Len(seq)]

\* Python's sum() over a list of floats
RECURSIVE SumSeq(_)
SumSeq(seq) == IF seq = <<>> THEN Zero ELSE Add(seq[1], SumSeq(Tail(seq)))

\* np.mean of a non-empty array of finite floats
Mean(seq) == Div(SumSeq(seq), Rat(Len(seq), 1))

\* np.std(seq) ** 2 for finite floats: the mean squared deviation
Variance(seq) ==
    LET m == Mean(seq)
    IN  Mean([k \in 1..Len(seq) |-> Mul(Sub(seq[k], m), Sub(seq[k], m))])

RISK_FREE_RATE == Rat(5, 100)
TRADING_DAYS_PER_YEAR == 365

\* MetricsEngine.calculate_returns
calculate_returns(equity_curve_) ==
    IF Len(equity_curve_) < 2 THEN <<Zero>>
    ELSE [k \in 1..(Len(equity_curve_) - 1) |->
             NpDiv(Sub(equity_curve_[k + 1], equity_curve_[k]), equity_curve_[k])]

\* the float 0.0 returned by sharpe_ratio's guard
SharpeZero == [kind |-> "zero"]
\* float('nan')
SharpeNaN == [kind |-> "nan"]

\* MetricsEngine.sharpe_ratio.  A finite result is kept as its two exact
\* parts: it is mean_excess / sqrt(variance) * sqrt(TRADING_DAYS_PER_YEAR).
\* np.std of an array holding inf or nan is nan, which is not == 0, and the
\* quotient by it is nan.
sharpe_ratio(equity_curve_) ==
    LET returns == calculate_returns(equity_curve_)
    IN  IF Len(returns) < 2 THEN SharpeZero
        ELSE IF \E k \in 1..Len(returns) : ~IsFinite(returns[k]) THEN SharpeNaN
        ELSE IF Variance(returns) = Zero THEN SharpeZero
        ELSE [kind |-> "ratio",
              mean_excess |-> Sub(Mean(returns),
                                  Div(RISK_FREE_RATE, Rat(TRADING_DAYS_PER_YEAR, 1))),
              variance |-> Variance(returns)]

PeakReached_Strict(val, peak) == Gt(val, peak)

\* `if val >= peak`
PeakReached(val, peak) == Ge(val, peak)

\* the drawdown in value, not as a fraction of the peak
DrawdownRatio_Absolute(peak, val) == Sub(peak, val)

\* `dd = (peak - val) / peak`
DrawdownRatio(peak, val) == NpDiv(Sub(peak, val), peak)

\* The `for i, val in enumerate(values)` loop of max_drawdown from index i on.
RECURSIVE DrawdownLoop(_, _, _)
DrawdownLoop(values, i, st) ==
    IF i >= Len(values) THEN st
    ELSE LET val == values[i + 1]
         IN  DrawdownLoop(values, i + 1,
                 IF PeakReached(val, st.peak)
                 THEN [st EXCEPT !.peak = val, !.current_dd_start = i]
                 ELSE LET dd == DrawdownRatio(st.peak, val)
                      IN  IF Gt(dd, st.max_dd)
                          THEN [st EXCEPT !.max_dd = dd,
                                          !.dd_start = st.current_dd_start,
                                          !.max_dd_duration = i - st.current_dd_start]
                          ELSE st)

\* MetricsEngine.max_drawdown: <<max_dd_pct, duration>>
max_drawdown(equity_curve_) ==
    IF Len(equity_curve_) < 2 THEN <<Zero, 0>>
    ELSE LET st == DrawdownLoop(equity_curve_, 0,
                       [peak |-> equity_curve_[1], max_dd |-> Zero, dd_start |-> 0,
                        max_dd_duration |-> 0, current_dd_start |-> 0])
         IN  <<Mul(st.max_dd, Rat(100, 1)), st.max_dd_duration>>

\* `[p for p in trade_pnls if p > 0]`
Wins(trade_pnls_) == SelectSeq(trade_pnls_, LAMBDA p : Gt(p, Zero))
\* break-even trades left out of the losses
Losses_Strict(trade_pnls_) == SelectSeq(trade_pnls_, LAMBDA p : Lt(p, Zero))

\* `[p for p in trade_pnls if p <= 0]`
Losses(trade_pnls_) == SelectSeq(trade_pnls_, LAMBDA p : Le(p, Zero))

\* `(gross_profit / gross_loss) if gross_loss > 0 else float("inf")`
ProfitFactor(gross_profit, gross_loss) ==
    IF Gt(gross_loss, Zero) THEN Div(gross_profit, gross_loss) ELSE Inf

\* MetricsEngine.analyze_trades
analyze_trades(trade_pnls_) ==
    IF trade_pnls_ = <<>>
    THEN [total_trades |-> 0, winning_trades |-> 0, losing_trades |-> 0,
          win_rate |-> Zero, profit_factor |-> Zero, avg_win |-> Zero,
          avg_loss |-> Zero]
    ELSE LET wins == Wins(trade_pnls_)
             losses == Losses(trade_pnls_)
             gross_profit == IF wins # <<>> THEN SumSeq(wins) ELSE Zero
             gross_loss == IF losses # <<>>
                           THEN LET s == SumSeq(losses) IN <<Abs(s[1]), s[2]>>
                           ELSE Zero
         IN  [total_trades |-> Len(trade_pnls_),
              winning_trades |-> Len(wins),
              losing_trades |-> Len(losses),
              win_rate |-> Mul(Rat(Len(wins), Len(trade_pnls_)), Rat(100, 1)),
              profit_factor |-> ProfitFactor(gross_profit, gross_loss),
              avg_win |-> IF wins # <<>> THEN Mean(wins) ELSE Zero,
              avg_loss |-> IF losses # <<>> THEN Mean(losses) ELSE Zero]

\* MetricsEngine.calculate_all: the performance fields of the BacktestResult,
\* or the ZeroDivisionError of `total_pnl / initial_capital`.
calculate_all(initial_capital, equity_curve_, trade_pnls_) ==
    LET final_value == IF equity_curve_ # <<>> THEN Last(equity_curve_)
                       ELSE initial_capital
        total_pnl == Sub(final_value, initial_capital)
    IN  IF initial_capital = Zero THEN [raised |-> "ZeroDivisionError"]
        ELSE LET dd == max_drawdown(equity_curve_)
                 trade_stats == analyze_trades(trade_pnls_)
             IN  [raised |-> "none",
                  initial_capital |-> initial_capital,
                  final_value |-> final_value,
                  total_pnl |-> total_pnl,
                  total_return_pct |->
                      Mul(Div(total_pnl, initial_capital), Rat(100, 1)),
                  sharpe_ratio |-> sharpe_ratio(equity_curve_),
                  max_drawdown_pct |-> dd[1],
                  max_drawdown_duration_days |-> dd[2],
                  total_trades |-> trade_stats.total_trades,
                  winning_trades |-> trade_stats.winning_trades,
                  losing_trades |-> trade_stats.losing_trades,
                  win_rate |-> trade_stats.win_rate,
                  profit_factor |-> trade_stats.profit_factor,
                  avg_win |-> trade_stats.avg_win,
                  avg_loss |-> trade_stats.avg_loss]

(***************************************************************************)
(* The analytics applied to trajectories and P&L lists of the caller's     *)
(* choice: equity_curve and trade_pnls are the arguments, result the value *)
(* returned by the last call.                                              *)
(***************************************************************************)
\* portfolio values: worthless, and three levels
CurveValues == {Zero, One, Rat(2, 1), Rat(3, 1)}
\* a rise, a fall below the start and a partial recovery
RiseFallRecover == <<Rat(100, 1), Rat(120, 1), Rat(90, 1), Rat(110, 1)>>
Curves == UNION {[1..n -> CurveValues] : n \in 0..MaxCurve} \cup {RiseFallRecover}
\* trade P&Ls: a loss, a break-even trade, two sizes of win
PnlValues == {Rat(-1, 1), Zero, One, Rat(2, 1)}
PnlLists == UNION {[1..n -> PnlValues] : n \in 0..MaxPnls}

MetricsInit ==
    /\ data = Dataset([k \in 1..NRows |-> One])
    /\ cfg \in Configs
    /\ cfg.fee_rate = Zero
    /\ cfg.risk_per_trade_pct = One
    /\ cfg.window_size = 1
    /\ exchange = ExchangeMock(cfg.initial_capital, cfg.fee_rate, cfg.slippage)
    /\ current_step = 0
    /\ done = FALSE
    /\ \/ equity_curve \in Curves /\ trade_pnls \in {<<>>, <<Rat(2, 1), Rat(-1, 1)>>}
       \/ equity_curve \in {<<>>, RiseFallRecover} /\ trade_pnls \in PnlLists
    /\ step_log = <<>>
    /\ score = ScoreMax
    /\ score_history = <<>>
    /\ total_hold_penalty = Zero
    /\ result = [op |-> "init", raised |-> "none"]
    /\ everReset = FALSE
    /\ agent = None

CallCalculateReturns ==
    /\ result' = [op |-> "calculate_returns", raised |-> "none",
                  returns |-> calculate_returns(equity_curve)]
    /\ UNCHANGED <<data, cfg, exchange, envVars, everReset, agent>>

CallSharpeRatio ==
    /\ result' = [op |-> "sharpe_ratio", raised |-> "none",
                  sharpe_ratio |-> sharpe_ratio(equity_curve)]
    /\ UNCHANGED <<data, cfg, exchange, envVars, everReset, agent>>

CallMaxDrawdown ==
    /\ \E dd \in {max_drawdown(equity_curve)} :
           result' = [op |-> "max_drawdown", raised |-> "none",
                      max_dd_pct |-> dd[1], duration |-> dd[2]]
    /\ UNCHANGED <<data, cfg, exchange, envVars, everReset, agent>>

CallAnalyzeTrades ==
    /\ result' = [op |-> "analyze_trades", raised |-> "none",
                  trade_stats |-> analyze_trades(trade_pnls)]
    /\ UNCHANGED <<data, cfg, exchange, envVars, everReset, agent>>

CallCalculateAll ==
    /\ \E r \in {calculate_all(cfg.initial_capital, equity_curve, trade_pnls)} :
           result' = [op |-> "calculate_all", raised |-> r.raised, metrics |-> r]
    /\ UNCHANGED <<data, cfg, exchange, envVars, everReset, agent>>

MetricsNext ==
    \/ CallCalculateReturns
    \/ CallSharpeRatio
    \/ CallMaxDrawdown
    \/ CallAnalyzeTrades
    \/ CallCalculateAll

MetricsSpec == MetricsInit /\ [][MetricsNext]_vars

(***************************************************************************)
(* Properties of the terminal guard and of the engine's bounds.            *)
(***************************************************************************)
\* C1: once the engine is TERMINAL (done), every step() raises the
\* invalid-state error and leaves the cursor, the trajectory, the step log,
\* the score, the score history, the cumulative penalty, the trade P&Ls and
\* the whole ledger as they were; only reset() leaves the terminal state.
C1_TerminalStepRejected ==
    [][(done /\ result'.op = "step") =>
            /\ result'.raised = "RuntimeError"
            /\ UNCHANGED <<exchange, envVars>>]_vars

\* A terminal engine with trades in its ledger on which step() was called.
C1_Witness ==
    /\ done
    /\ result.op = "step"
    /\ result.raised = "RuntimeError"
    /\ Len(exchange.trade_history) > 0
    /\ Len(step_log) > 0

\* C2: step() on an engine that was constructed but never reset raises the
\* invalid-state error, performs no ledger operation, appends nothing to the
\* trajectory or the step log and does not advance the cursor.
C2_UninitializedStepRejected ==
    ~everReset =>
        /\ result.op = "step" => result.raised = "RuntimeError"
        /\ exchange = ExchangeMock(cfg.initial_capital, cfg.fee_rate, cfg.slippage)
        /\ equity_curve = <<>>
        /\ step_log = <<>>
        /\ current_step = 0

\* The rates of the configuration are in [0, 1], the capital is not negative
\* and every close is positive.
ValidInputs ==
    /\ Ge(cfg.initial_capital, Zero)
    /\ \A r \in {cfg.fee_rate, cfg.slippage, cfg.hold_penalty_rate} :
            Ge(r, Zero) /\ Le(r, One)
    /\ \A i \in 1..Len(data) : Gt(data[i].close, Zero)

\* C3: with valid inputs the ledger's cash is never negative, whatever
\* HOLD/BUY/SELL steps were taken; so is every cash value written to the log.
C3_CashNonNegative ==
    ValidInputs =>
        /\ Ge(exchange.cash, Zero)
        /\ \A i \in 1..Len(step_log) : Ge(step_log[i].cash, Zero)

\* A BUY step that filled for less than prev_value * risk_per_trade_pct because
\* the amount was clamped to the cash, which it used up.
C3_Witness ==
    /\ result.op = "step"
    /\ result.raised = "none"
    /\ result.info.fill # None
    /\ result.info.fill.side = "BUY"
    /\ exchange.cash = Zero
    /\ LET f == result.info.fill
           held == Sub(PositionQty(exchange), f.quantity)
           prev_value == Add(Add(exchange.cash, f.total_cost),
                             Mul(held, Last(step_log).price))
       IN  /\ Gt(held, Dust)
           /\ Gt(Mul(prev_value, cfg.risk_per_trade_pct), f.total_cost)

InScoreRange(x) == Ge(x, Zero) /\ Le(x, ScoreMax)

\* C4: the score is in [0, 1000] in every state, and so is every score in
\* the step log, the score history, the info payload and the observation.
C4_ScoreBounded ==
    /\ InScoreRange(score)
    /\ \A i \in 1..Len(score_history) : InScoreRange(score_history[i])
    /\ \A i \in 1..Len(step_log) : InScoreRange(step_log[i].score)
    /\ (result.op = "step" /\ result.raised = "none") =>
            /\ InScoreRange(result.info.score)
            /\ ~result.terminated => InScoreRange(result.observation.score)
    /\ result.op = "reset" => InScoreRange(result.observation.score)

\* A step whose losses and hold penalty exceed the score left: the score is 0.
C4_Witness ==
    /\ Len(score_history) >= 2
    /\ score = Zero
    /\ Last(step_log).action = "HOLD"
    /\ Gt(Mul(Div(Last(step_log).hold_penalty, cfg.initial_capital), PenaltyWeight),
          score_history[Len(score_history) - 1])

(***************************************************************************)
(* Properties of the ledger's accounting.                                  *)
(***************************************************************************)
\* C5: a buy that fills, with usd_amount the requested amount clamped to the
\* cash: cash_after = cash_before - usd_amount, fill.total_cost = usd_amount,
\* fee = usd_amount * fee_rate, execution price = market_price * (1 + slippage)
\* and usd_amount = fee + quantity * execution_price.
C5_BuyConservesValue ==
    [][(result'.op = "buy" /\ result'.fill # None) =>
        \A requested \in Amounts, market_price \in Prices :
            LedgerBuyCall(result'.fill.symbol, requested, market_price,
                          result'.fill.timestamp) =>
                LET f == result'.fill
                    usd_amount == Min(requested, exchange.cash)
                IN  /\ exchange'.cash = Sub(exchange.cash, usd_amount)
                    /\ f.total_cost = usd_amount
                    /\ f.fee = Mul(usd_amount, exchange.fee_rate)
                    /\ f.price = Mul(market_price, Add(One, exchange.slippage))
                    /\ usd_amount = Add(f.fee, Mul(f.quantity, f.price))]_vars

\* A buy of more than the cash, filled for the cash, on which a fee was paid.
C5_Witness ==
    /\ result.op = "buy"
    /\ result.fill # None
    /\ result.fill.total_cost = Rat(3, 1)
    /\ Gt(result.fill.fee, Zero)
    /\ exchange.cash = Zero
    /\ Len(exchange.trade_history) = 2

\* C6: in every ledger state every position has quantity >= 0, and a
\* quantity below the dust threshold implies avg_entry_price = 0 and
\* total_invested = 0.
C6_DustPositionIsReset ==
    \A s \in DOMAIN exchange.positions :
        LET pos == exchange.positions[s]
        IN  /\ Ge(pos.quantity, Zero)
            /\ Lt(pos.quantity, Dust) =>
                    (pos.avg_entry_price = Zero /\ pos.total_invested = Zero)

\* The state reset() leaves the engine in, and the observation it returns, as
\* functions of the dataset and the configuration alone.
FreshEngine ==
    /\ current_step = cfg.window_size
    /\ done = FALSE
    /\ exchange.cash = cfg.initial_capital
    /\ exchange.positions = <<>>
    /\ exchange.trade_history = <<>>
    /\ exchange.realized_pnl = Zero
    /\ equity_curve = <<>>
    /\ step_log = <<>>
    /\ score_history = <<>>
    /\ trade_pnls = <<>>
    /\ score = ScoreMax
    /\ total_hold_penalty = Zero

FirstObservation ==
    LET w == cfg.window_size
    IN  [prices |-> [k \in 1..w |-> data[k].close],
         volumes |-> [k \in 1..w |-> data[k].volume],
         returns |-> [k \in 1..w |->
                        IF k = 1 THEN Zero
                        ELSE Sub(Div(data[k].close, data[k - 1].close), One)],
         current_price |-> data[w + 1].close,
         position |-> Zero,
         portfolio_value |-> cfg.initial_capital,
         cash |-> cfg.initial_capital,
         sentiment |-> data[w + 1].sentiment_score,
         score |-> ScoreMax,
         timestamp |-> data[w + 1].timestamp,
         step |-> w]

\* C7: reset(), in whatever state it is called, leaves the engine in one and
\* the same initial state and returns the same first observation.
C7_ResetIsIdempotent ==
    result.op = "reset" => (FreshEngine /\ result.observation = FirstObservation)

\* reset() called on a terminal engine.
C7_Witness ==
    /\ result.op = "reset"
    /\ result.called_in = "TERMINAL"

\* C8: the trade P&Ls the engine records are the realized P&Ls of the SELL
\* fills, so after any steps from reset() their sum is the ledger's
\* cumulative realized P&L.
C8_RecordedPnlIsRealizedPnl ==
    everReset => SumSeq(trade_pnls) = exchange.realized_pnl

\* C9: the engine never executes an action at the final row N - 1: no step is
\* logged and no order is filled with that row's timestamp, and the engine is
\* TERMINAL as soon as the cursor is on that row.
C9_FinalRowNeverActedOn ==
    LET final == data[Len(data)].timestamp
    IN  /\ \A i \in 1..Len(step_log) : step_log[i].timestamp # final
        /\ \A i \in 1..Len(exchange.trade_history) :
                exchange.trade_history[i].timestamp # final
        /\ current_step <= Len(data) - 1
        /\ current_step = Len(data) - 1 => done

\* A run that acted on the second-to-last row, is TERMINAL with the cursor on
\* the final row, and on which step() was tried again.
C9_Witness ==
    /\ done
    /\ current_step = Len(data) - 1
    /\ Len(step_log) = Len(data) - 1 - cfg.window_size
    /\ Last(step_log).timestamp = data[Len(data) - 1].timestamp
    /\ result.raised = "RuntimeError"

C12_NoFillChangesNothing ==
    \A symbol \in Symbols, market_price \in Prices, fill_ts \in Clock :
        /\ \A usd_amount \in Amounts :
               LET r == Buy(exchange, symbol, usd_amount, market_price, fill_ts)
                   rejected == \/ Le(usd_amount, Zero)
                               \/ Lt(Min(usd_amount, exchange.cash), MinTrade)
               IN  /\ (r.fill = None) <=> rejected
                   /\ (r.fill = None) => r.ex = exchange
        /\ \A quantity \in Quantities :
               LET r == Sell(exchange, symbol, quantity, market_price, fill_ts)
                   held == IF symbol \in DOMAIN exchange.positions
                           THEN exchange.positions[symbol].quantity ELSE Zero
                   clamped == IF quantity = None THEN held ELSE Min(quantity, held)
                   rejected == ~Gt(held, Dust) \/ Lt(clamped, Dust)
               IN  /\ (r.fill = None) <=> rejected
                   /\ (r.fill = None) => r.ex = exchange

\* A sell returned no fill on a ledger that holds an open position, cash and
\* a realized P&L from earlier trades.
C12_Witness ==
    /\ result.op = "sell"
    /\ result.fill = None
    /\ \E s \in DOMAIN exchange.positions : is_open(exchange.positions[s])
    /\ exchange.realized_pnl # Zero
    /\ Gt(exchange.cash, Zero)


(***************************************************************************)
(* C13: in every reachable ledger state, every position's total_invested   *)
(* is the cost basis of the quantity currently open,                       *)
(* total_invested = avg_entry_price * quantity, after buys and after a     *)
(* partial sell that leaves the position open.                             *)
(***************************************************************************)
C13_TotalInvestedIsCostBasis ==
    \A s \in DOMAIN exchange.positions :
        LET pos == exchange.positions[s]
        IN  pos.total_invested = Mul(pos.avg_entry_price, pos.quantity)


(***************************************************************************)
(* C18: between two resets the trade history is append-only: a step whose  *)
(* buy or sell fills appends exactly that one Fill at the end, a step      *)
(* whose buy or sell does not fill, a HOLD step and a rejected step append *)
(* nothing, and the Fills already there keep their content and order.      *)
(***************************************************************************)
C18_TradeHistoryAppendOnly ==
    [][result'.op = "step" =>
        IF result'.raised = "none" /\ result'.info.fill # None
        THEN /\ result'.action \in {BUY, SELL}
             /\ exchange'.trade_history =
                    Append(exchange.trade_history, result'.info.fill)
        ELSE exchange'.trade_history = exchange.trade_history]_vars

\* After a buy fill and a sell fill, a step that appended no Fill.
C18_Witness ==
    /\ Len(exchange.trade_history) = 2
    /\ exchange.trade_history[1].side = "BUY"
    /\ exchange.trade_history[2].side = "SELL"
    /\ Len(step_log) = 3
    /\ result.op = "step"
    /\ result.raised = "none"
    /\ result.info.fill = None


(***************************************************************************)
(* Properties of the analytics.                                            *)
(***************************************************************************)
\* C14: for every trajectory of non-negative values, also one that starts
\* at 0 or contains 0, max_drawdown returns a percentage between 0 and 100,
\* and it returns (0, 0) for every trajectory of fewer than 2 points.
C14_DrawdownIsAPercentage ==
    result.op = "max_drawdown" =>
        /\ result.raised = "none"
        /\ IsFinite(result.max_dd_pct)
        /\ Ge(result.max_dd_pct, Zero)
        /\ Le(result.max_dd_pct, Rat(100, 1))
        /\ Len(equity_curve) < 2 =>
               (result.max_dd_pct = Zero /\ result.duration = 0)

\* max_drawdown was applied to a trajectory that starts at 0, rises, and
\* falls back to 0: a drawdown of 100 per cent.
C14_Witness ==
    /\ result.op = "max_drawdown"
    /\ Len(equity_curve) >= 3
    /\ equity_curve[1] = Zero
    /\ Last(equity_curve) = Zero
    /\ result.max_dd_pct = Rat(100, 1)

\* P_i of a trajectory v: max(v_0..v_i), with i counted from 1
RunningPeak(v, i) == CHOOSE p \in {v[j] : j \in 1..i} : \A j \in 1..i : Ge(p, v[j])

\* (P_i - v_i) / P_i, and 0 where the running peak is 0
DrawdownAt(v, i) ==
    IF RunningPeak(v, i) = Zero THEN Zero
    ELSE Div(Sub(RunningPeak(v, i), v[i]), RunningPeak(v, i))

\* C15: max_drawdown returns the maximum over i of (P_i - v_i) / P_i, as a
\* percentage, and the duration i* - j*, where i* is the first index that
\* attains the maximum and j* the last index <= i* at which the running
\* peak P_i* was attained; (0, 0) for the empty trajectory.
C15_DrawdownIsPeakToTrough ==
    result.op = "max_drawdown" =>
        IF equity_curve = <<>>
        THEN result.max_dd_pct = Zero /\ result.duration = 0
        ELSE LET v == equity_curve
                 idx == 1..Len(v)
                 worst == CHOOSE d \in {DrawdownAt(v, i) : i \in idx} :
                              \A i \in idx : Ge(d, DrawdownAt(v, i))
                 istar == CHOOSE i \in idx :
                              /\ DrawdownAt(v, i) = worst
                              /\ \A k \in idx : DrawdownAt(v, k) = worst => i <= k
                 jstar == CHOOSE j \in 1..istar :
                              /\ v[j] = RunningPeak(v, istar)
                              /\ \A k \in 1..istar :
                                     v[k] = RunningPeak(v, istar) => k <= j
             IN  /\ result.max_dd_pct = Mul(worst, Rat(100, 1))
                 /\ result.duration = istar - jstar

\* max_drawdown was applied to [100, 120, 90, 110]: 25 per cent, duration 1.
C15_Witness ==
    /\ result.op = "max_drawdown"
    /\ equity_curve = RiseFallRecover
    /\ result.max_dd_pct = Rat(25, 1)
    /\ result.duration = 1


\* C16: analyze_trades returns profit_factor = gross profit / |gross loss|
\* when the gross loss is not zero, +infinity exactly when there is at least
\* one winning trade and the losses sum to zero, and 0 for the empty list;
\* so a non-empty list without a winning trade never yields +infinity.
C16_ProfitFactorDefined ==
    result.op = "analyze_trades" =>
        LET profit_factor == result.trade_stats.profit_factor
            gross_profit == SumSeq(Wins(trade_pnls))
            gross_loss == SumSeq(Losses(trade_pnls))
        IN  /\ gross_loss # Zero =>
                   profit_factor = Div(gross_profit, Neg(gross_loss))
            /\ profit_factor = Inf <=>
                   (Wins(trade_pnls) # <<>> /\ gross_loss = Zero)
            /\ trade_pnls = <<>> => profit_factor = Zero

\* C17: no analytics operation divides by zero or hands on a fault, for any
\* trajectory of non-negative values (zeros before the last point included)
\* and any trade P&L list: every return is a finite number, the
\* risk-adjusted return is a number and is the fallback 0 when the return
\* series is degenerate (fewer than 2 returns, or no spread), the drawdown
\* is a finite number, and the aggregate result is produced without error.
C17_AnalyticsNeverFault ==
    /\ result.raised = "none"
    /\ result.op = "calculate_returns" =>
           \A k \in 1..Len(result.returns) : IsFinite(result.returns[k])
    /\ result.op = "sharpe_ratio" =>
           /\ result.sharpe_ratio # SharpeNaN
           /\ Len(equity_curve) < 3 => result.sharpe_ratio = SharpeZero
    /\ result.op = "max_drawdown" => IsFinite(result.max_dd_pct)
    /\ result.op = "analyze_trades" =>
           result.trade_stats.profit_factor \notin {NaN, NegInf}
    /\ result.op = "calculate_all" =>
           /\ result.metrics.sharpe_ratio # SharpeNaN
           /\ IsFinite(result.metrics.total_return_pct)
           /\ IsFinite(result.metrics.max_drawdown_pct)


(***************************************************************************)
(* C20: the simulation is deterministic.  The state after construction is  *)
(* fixed by the dataset and the configuration, reset() takes no input, and *)
(* the outcome of every step - ledger, trajectory, step log, scores,       *)
(* reward, fill and terminal flag - is fixed by the state before it and    *)
(* the action alone: no reading of the wall clock changes it, and a fill   *)
(* carries the timestamp of the dataset row it was made at.  Two runs with *)
(* the same dataset, configuration and actions therefore go through the    *)
(* same states.                                                            *)
(***************************************************************************)
C20_Deterministic ==
    [][result'.op = "step" =>
        /\ \E action \in Actions :
               \A fill_ts \in FillTimestamps(StepTimestamp) : Step(action, fill_ts)
        /\ (result'.raised = "none" /\ result'.info.fill # None) =>
               result'.info.fill.timestamp = Row(current_step).timestamp]_vars

\* A run ended with a step that filled, after an earlier fill: both fills
\* carry timestamps of dataset rows.
C20_Witness ==
    /\ done
    /\ result.op = "step"
    /\ result.raised = "none"
    /\ result.info.fill # None
    /\ Len(exchange.trade_history) >= 2
    /\ \A k \in 1..Len(exchange.trade_history) :
           exchange.trade_history[k].timestamp \in 1..NRows


(***************************************************************************)
(* Properties of the engine's steps.                                       *)
(***************************************************************************)
\* C22: from reset() on a dataset of N >= window_size + 2 rows, whatever the
\* actions, the k-th successful step executes at row window_size + k - 1 and
\* moves the cursor on by exactly 1, and the engine is TERMINAL exactly
\* after N - 1 - window_size successful steps: the step executed at row
\* N - 2 is the one that returns the terminal flag, with an empty
\* observation, and every earlier one returns an observation.
C22_TerminalAfterFixedSteps ==
    everReset =>
        LET steps == Len(step_log)
        IN  /\ current_step = cfg.window_size + steps
            /\ \A k \in 1..steps :
                   step_log[k].timestamp = Row(cfg.window_size + k - 1).timestamp
            /\ done <=> steps = Len(data) - 1 - cfg.window_size
            /\ (result.op = "step" /\ result.raised = "none") =>
                   /\ result.terminated <=> Last(step_log).timestamp = Row(Len(data) - 2).timestamp
                   /\ result.terminated <=> result.observation = EmptyObservation
                   /\ result.terminated <=> done
                   /\ result.info.step = current_step

\* A run from reset() to TERMINAL in which the actions were not all the same.
C22_Witness ==
    /\ everReset
    /\ done
    /\ result.op = "step"
    /\ result.raised = "none"
    /\ result.terminated
    /\ Len(step_log) = NRows - 1 - cfg.window_size
    /\ \E k \in 1..(Len(step_log) - 1) : step_log[k].action # step_log[k + 1].action


\* C23: each step sets the score to clamp_[0,1000](old_score + g - h), with
\* reward = (current_value - prev_value) / prev_value (0 when prev_value is
\* not positive), g = reward * 100 for a positive reward, reward * 150 for a
\* negative one, 0 for none, and h = (penalty / initial_capital) * 50 when a
\* hold penalty was applied in the step, else 0; a HOLD step with a penalty
\* has a negative reward, so it lowers the score through both terms.
C23_ScoreUpdate ==
    [][(result'.op = "step" /\ result'.raised = "none") =>
        LET prev_value == get_portfolio_value(exchange, PriceMap(Row(current_step).close))
            current_value == result'.info.portfolio_value
            reward == result'.reward
            penalty == result'.info.hold_penalty
            g == IF Gt(reward, Zero) THEN Mul(reward, Rat(100, 1))
                 ELSE IF Lt(reward, Zero) THEN Mul(reward, Rat(150, 1))
                 ELSE Zero
            h == IF Gt(penalty, Zero)
                 THEN Mul(Div(penalty, cfg.initial_capital), Rat(50, 1))
                 ELSE Zero
            raw == Sub(Add(score, g), h)
        IN  /\ reward = IF Gt(prev_value, Zero)
                        THEN Div(Sub(current_value, prev_value), prev_value)
                        ELSE Zero
            /\ score' = IF Lt(raw, Zero) THEN Zero
                        ELSE IF Gt(raw, Rat(1000, 1)) THEN Rat(1000, 1)
                        ELSE raw
            /\ result'.info.score = score'
            /\ Last(score_history') = score'
            /\ Gt(penalty, Zero) =>
                   /\ result'.action = HOLD
                   /\ Lt(reward, Zero)
                   /\ Lt(g, Zero) /\ Gt(h, Zero)]_vars

\* A HOLD step with a penalty lowered a score that an earlier loss had
\* already lowered, and the score is still above 0.
C23_Witness ==
    /\ Len(score_history) >= 2
    /\ Last(step_log).action = "HOLD"
    /\ Gt(Last(step_log).hold_penalty, Zero)
    /\ Lt(Last(step_log).reward, Zero)
    /\ Lt(score_history[Len(score_history) - 1], ScoreMax)
    /\ Lt(score, score_history[Len(score_history) - 1])
    /\ Gt(score, Zero)


\* C24: a BUY step debits the cash by exactly
\* min(prev_value * risk_per_trade_pct, cash) when that amount is >= 0.01,
\* prev_value being the cash plus the open position at the row's close
\* before the action, and then records one Fill of that total cost and adds
\* to the position; otherwise it debits nothing and records no Fill.
C24_BuyStepDebit ==
    [][(result'.op = "step" /\ result'.raised = "none" /\ result'.action = BUY) =>
        LET close == Row(current_step).close
            held == PositionQty(exchange)
            prev_value == IF Gt(held, Dust)
                          THEN Add(exchange.cash, Mul(held, close))
                          ELSE exchange.cash
            amount == Min(Mul(prev_value, cfg.risk_per_trade_pct), exchange.cash)
        IN  IF Ge(amount, MinTrade)
            THEN /\ exchange'.cash = Sub(exchange.cash, amount)
                 /\ result'.info.fill # None
                 /\ result'.info.fill.side = "BUY"
                 /\ result'.info.fill.total_cost = amount
                 /\ exchange'.trade_history =
                        Append(exchange.trade_history, result'.info.fill)
                 /\ Gt(PositionQty(exchange'), held)
            ELSE /\ exchange' = exchange
                 /\ result'.info.fill = None]_vars

\* Two BUY steps filled, the second adding to the position of the first and
\* using up the cash, and a third BUY step found no cash and did not fill.
C24_Witness ==
    /\ Len(step_log) = 3
    /\ \A k \in 1..3 : step_log[k].action = "BUY"
    /\ Len(exchange.trade_history) = 2
    /\ Gt(step_log[2].position_qty, step_log[1].position_qty)
    /\ Gt(step_log[1].cash, Zero)
    /\ exchange.cash = Zero
    /\ result.op = "step"
    /\ result.raised = "none"
    /\ result.info.fill = None


\* C25: a SELL step fills exactly when the instrument's position is open;
\* it then sells the whole quantity and leaves the position fully closed
\* (quantity, avg_entry_price and total_invested all 0), the portfolio value
\* equal to the cash, and one trade P&L recorded; a SELL step with no open
\* position changes nothing in the ledger and records no trade P&L.
C25_SellStepClosesPosition ==
    [][(result'.op = "step" /\ result'.raised = "none" /\ result'.action = SELL) =>
        LET held == PositionQty(exchange)
            fill == result'.info.fill
        IN  /\ fill # None <=> Gt(held, Dust)
            /\ IF fill # None
               THEN /\ fill.side = "SELL"
                    /\ fill.quantity = held
                    /\ exchange'.positions[cfg.symbol] =
                           [symbol |-> cfg.symbol, quantity |-> Zero,
                            avg_entry_price |-> Zero, total_invested |-> Zero]
                    /\ result'.info.portfolio_value = exchange'.cash
                    /\ Last(equity_curve') = exchange'.cash
                    /\ Len(trade_pnls') = Len(trade_pnls) + 1
               ELSE /\ exchange' = exchange
                    /\ trade_pnls' = trade_pnls]_vars

\* A SELL step closed a position built by two buys, at a profit or a loss.
C25_Witness ==
    /\ step_log # <<>>
    /\ Last(step_log).action = "SELL"
    /\ result.op = "step"
    /\ result.raised = "none"
    /\ result.info.fill # None
    /\ Len(exchange.trade_history) = 3
    /\ exchange.realized_pnl # Zero
    /\ PositionQty(exchange) = Zero


(***************************************************************************)
(* Properties of the ledger's positions and valuation.                     *)
(***************************************************************************)
\* The filled buys of `symbol` since its position was last closed (absent,
\* or reset by a sell down to dust), read off a trade history: how many,
\* their total quantity, the sum of usd_amount - fee, their lowest and
\* highest execution price, and whether a sell came in between.
RECURSIVE BuysSinceClosed(_, _, _)
BuysSinceClosed(history, symbol, acc) ==
    IF history = <<>> THEN acc
    ELSE LET f == Head(history)
             closed == [n |-> 0, quantity |-> Zero, held |-> Zero, invested |-> Zero,
                        low |-> Zero, high |-> Zero, sold |-> FALSE]
             next ==
                 IF f.symbol # symbol THEN acc
                 ELSE IF f.side = "BUY"
                 THEN [n |-> acc.n + 1,
                       quantity |-> Add(acc.quantity, f.quantity),
                       held |-> Add(acc.held, f.quantity),
                       invested |-> Add(acc.invested, Sub(f.total_cost, f.fee)),
                       low |-> IF acc.n = 0 THEN f.price ELSE Min(acc.low, f.price),
                       high |-> IF acc.n = 0 THEN f.price ELSE Max(acc.high, f.price),
                       sold |-> acc.sold]
                 ELSE IF Lt(Sub(acc.held, f.quantity), Dust) THEN closed
                 ELSE [acc EXCEPT !.held = Sub(acc.held, f.quantity), !.sold = TRUE]
         IN  BuysSinceClosed(Tail(history), symbol, next)

\* the first half of C26, of one ledger state
WeightedEntryPrice(ex) ==
    \A s \in DOMAIN ex.positions :
        LET pos == ex.positions[s]
            buys == BuysSinceClosed(ex.trade_history, s,
                        [n |-> 0, quantity |-> Zero, held |-> Zero,
                         invested |-> Zero, low |-> Zero, high |-> Zero,
                         sold |-> FALSE])
        IN  (buys.n > 0 /\ ~buys.sold) =>
                /\ pos.quantity = buys.quantity
                /\ Mul(pos.avg_entry_price, pos.quantity) = buys.invested
                /\ Ge(pos.avg_entry_price, buys.low)
                /\ Le(pos.avg_entry_price, buys.high)

\* C26: after any sequence of filled buys on one instrument with no sell in
\* between, starting from a closed position, avg_entry_price * quantity is
\* the sum of (usd_amount_i - fee_i) over those buys, so avg_entry_price is
\* the quantity-weighted mean of their execution prices and lies between
\* the lowest and the highest; and a sell that leaves the position open
\* does not change avg_entry_price.
C26_AvgEntryIsWeightedMean ==
    [][/\ WeightedEntryPrice(exchange')
       /\ (result'.op = "sell" /\ result'.fill # None) =>
              LET s == result'.fill.symbol
              IN  is_open(exchange'.positions[s]) =>
                      exchange'.positions[s].avg_entry_price =
                          exchange.positions[s].avg_entry_price]_vars

\* Two buys of one instrument at different prices, then a sell that left the
\* position open: the entry price is strictly between the two prices.
C26_Witness ==
    /\ Len(exchange.trade_history) = 3
    /\ \A k \in 1..3 : exchange.trade_history[k].symbol = "BTCUSDT"
    /\ exchange.trade_history[1].side = "BUY"
    /\ exchange.trade_history[2].side = "BUY"
    /\ exchange.trade_history[3].side = "SELL"
    /\ exchange.trade_history[1].price # exchange.trade_history[2].price
    /\ is_open(exchange.positions["BTCUSDT"])
    /\ Gt(exchange.positions["BTCUSDT"].avg_entry_price,
          Min(exchange.trade_history[1].price, exchange.trade_history[2].price))
    /\ Lt(exchange.positions["BTCUSDT"].avg_entry_price,
          Max(exchange.trade_history[1].price, exchange.trade_history[2].price))


(***************************************************************************)
(* Properties of what the engine records and shows.                        *)
(***************************************************************************)
\* sum of the hold_penalty fields of a step log
RECURSIVE LoggedPenalty(_)
LoggedPenalty(log) ==
    IF log = <<>> THEN Zero ELSE Add(log[1].hold_penalty, LoggedPenalty(Tail(log)))

\* C27: after reset() and any number of steps, the value trajectory, the
\* step log and the score history each hold one entry per elapsed step
\* (cursor - window_size of them), their i-th entries belong to the same
\* step, the step log's timestamps follow the dataset's rows in order, and
\* the cumulative hold penalty is the sum of the log's hold_penalty fields.
C27_OneRecordPerStep ==
    everReset =>
        LET steps == current_step - cfg.window_size
        IN  /\ Len(equity_curve) = steps
            /\ Len(step_log) = steps
            /\ Len(score_history) = steps
            /\ \A i \in 1..Len(step_log) :
                   /\ i <= Len(equity_curve) /\ i <= Len(score_history)
                   /\ step_log[i].portfolio_value = equity_curve[i]
                   /\ step_log[i].score = score_history[i]
                   /\ step_log[i].timestamp = Row(cfg.window_size + i - 1).timestamp
                   /\ step_log[i].price = Row(cfg.window_size + i - 1).close
                   /\ i > 1 => step_log[i - 1].timestamp < step_log[i].timestamp
            /\ total_hold_penalty = LoggedPenalty(step_log)
            /\ steps > 0 => score = Last(score_history)

\* A run of three steps since reset() in which a penalty was charged in one
\* step and not in another, and the value changed.
C27_Witness ==
    /\ everReset
    /\ Len(step_log) = 3
    /\ Gt(total_hold_penalty, Zero)
    /\ \E i, j \in 1..3 :
           /\ Gt(step_log[i].hold_penalty, Zero)
           /\ step_log[j].hold_penalty = Zero
    /\ equity_curve[1] # equity_curve[3]


\* C28: every observation returned by reset() or by a non-terminal step()
\* holds a price window and a returns window of exactly window_size rows,
\* the rows [cursor - window_size, cursor) of the dataset in order, with no
\* padding; once reset() has been called the cursor is never below
\* window_size, so no shorter window is returned.
C28_ObservationWindow ==
    (everReset /\ result.op \in {"reset", "step"} /\ result.raised = "none"
              /\ result.observation # EmptyObservation) =>
        LET obs == result.observation
            w == cfg.window_size
        IN  /\ obs.step = current_step
            /\ current_step >= w
            /\ Len(obs.prices) = w
            /\ Len(obs.returns) = w
            /\ \A k \in 1..w :
                   /\ obs.prices[k] = data[current_step - w + k].close
                   /\ obs.returns[k] =
                          IF current_step - w + k = 1 THEN Zero
                          ELSE Sub(Div(data[current_step - w + k].close,
                                       data[current_step - w + k - 1].close), One)
            /\ obs.current_price = data[current_step + 1].close
            /\ obs.timestamp = data[current_step + 1].timestamp

\* A step returned an observation whose window of two rows ends on a row
\* whose close differs from the current price.
C28_Witness ==
    /\ everReset
    /\ result.op = "step"
    /\ result.raised = "none"
    /\ result.observation # EmptyObservation
    /\ cfg.window_size = 2
    /\ Len(result.observation.prices) = 2
    /\ result.observation.prices[1] # result.observation.prices[2]
    /\ result.observation.prices[2] # result.observation.current_price


\* price_map arguments: every map from some of the instruments to prices
PriceMaps == UNION {[S -> Prices] : S \in SUBSET Symbols}

\* quantity * price summed over the instruments of `syms` that have a
\* position above the dust threshold and a price in price_map
RECURSIVE PricedOpenQuantity(_, _, _)
PricedOpenQuantity(ex, price_map, syms) ==
    IF syms = {} THEN Zero
    ELSE LET s == CHOOSE t \in syms : TRUE
             counted == /\ s \in DOMAIN ex.positions
                        /\ s \in DOMAIN price_map
                        /\ Gt(ex.positions[s].quantity, Dust)
         IN  Add(IF counted THEN Mul(ex.positions[s].quantity, price_map[s]) ELSE Zero,
                 PricedOpenQuantity(ex, price_map, syms \ {s}))

\* C29: get_portfolio_value(price_map) returns the cash plus the sum of
\* quantity * price over exactly the positions that are open (quantity above
\* 1e-10) and whose instrument is in price_map; positions without a price
\* and positions at or below the dust threshold add nothing.  Stated of
\* every price map in each reachable ledger state; the operation reads the
\* ledger only.
C29_PortfolioValue ==
    \A price_map \in PriceMaps :
        get_portfolio_value(exchange, price_map) =
            Add(exchange.cash, PricedOpenQuantity(exchange, price_map, Symbols))

\* A ledger with cash, an open position and a second position at or below
\* the dust threshold: its value depends on the open position's price, not
\* on the other's, and is the cash alone when no price is given.
C29_Witness ==
    /\ Gt(exchange.cash, Zero)
    /\ DOMAIN exchange.positions = Symbols
    /\ \E s, d \in Symbols :
           /\ is_open(exchange.positions[s])
           /\ Gt(exchange.positions[d].quantity, Zero)
           /\ ~is_open(exchange.positions[d])
           /\ get_portfolio_value(exchange, [x \in Symbols |-> One])
                  # get_portfolio_value(exchange, [x \in Symbols |-> Rat(32, 1)])
           /\ get_portfolio_value(exchange, [x \in {d} |-> Rat(32, 1)]) = exchange.cash
           /\ get_portfolio_value(exchange, <<>>) = exchange.cash


\* C30: analyze_trades splits every non-empty P&L list into wins (P&L > 0)
\* and losses (P&L <= 0, a break-even trade being a loss):
\* winning_trades + losing_trades = total_trades, win_rate is
\* winning_trades / total_trades * 100 and lies in [0, 100], avg_win >= 0
\* and avg_loss <= 0.
C30_TradesPartition ==
    (result.op = "analyze_trades" /\ trade_pnls # <<>>) =>
        LET stats == result.trade_stats
            n == Len(trade_pnls)
            nwins == Cardinality({k \in 1..n : Gt(trade_pnls[k], Zero)})
            nlosses == Cardinality({k \in 1..n : Le(trade_pnls[k], Zero)})
        IN  /\ stats.total_trades = n
            /\ stats.winning_trades = nwins
            /\ stats.losing_trades = nlosses
            /\ stats.winning_trades + stats.losing_trades = stats.total_trades
            /\ stats.win_rate = Rat(100 * nwins, n)
            /\ Ge(stats.win_rate, Zero) /\ Le(stats.win_rate, Rat(100, 1))
            /\ Ge(stats.avg_win, Zero)
            /\ Le(stats.avg_loss, Zero)
            /\ nwins > 0 => Gt(stats.avg_win, Zero)

\* analyze_trades was applied to a list with a win, a break-even trade and
\* a loss: one win and two losses.
C30_Witness ==
    /\ result.op = "analyze_trades"
    /\ \E i, j, k \in 1..Len(trade_pnls) :
           /\ Gt(trade_pnls[i], Zero)
           /\ trade_pnls[j] = Zero
           /\ Lt(trade_pnls[k], Zero)
    /\ result.trade_stats.winning_trades = 1
    /\ result.trade_stats.losing_trades = 2
    /\ Lt(result.trade_stats.avg_loss, Zero)


(***************************************************************************)
(* BuyHoldAgent and the backtest loop of run_backtest                      *)
(***************************************************************************)

\* BuyHoldAgent.__init__: name "BuyHold", no decision taken, nothing bought
BuyHoldAgent == [name |-> "BuyHold", step_count |-> 0, has_bought |-> FALSE]

\* BuyHoldAgent.reset
BuyHoldReset(ag) == [ag EXCEPT !.step_count = 0, !.has_bought = FALSE]

\* BuyHoldAgent.decide: BUY on the first decision, HOLD on every later one;
\* the observation is not consulted
BuyHoldDecide(ag, observation) ==
    [agent  |-> [ag EXCEPT !.step_count = ag.step_count + 1, !.has_bought = TRUE],
     action |-> IF ~ag.has_bought THEN BUY ELSE HOLD]

(***************************************************************************)
(* ContrarianStrategy                                                      *)
(***************************************************************************)

\* ContrarianStrategy.__init__
ContrarianStrategy(price_spike_threshold, volume_multiplier, sentiment_extreme, max_hold_periods, stop_loss_pct) ==
    [name |-> "Contrarian", step_count |-> 0,
     price_spike_threshold |-> price_spike_threshold,
     volume_multiplier |-> volume_multiplier,
     sentiment_extreme |-> sentiment_extreme,
     max_hold_periods |-> max_hold_periods,
     stop_loss_pct |-> stop_loss_pct,
     entry_price |-> Zero, hold_counter |-> 0, position_direction |-> None]

\* ContrarianStrategy._reset_position
ResetPosition(ag) ==
    [ag EXCEPT !.entry_price = Zero, !.hold_counter = 0, !.position_direction = None]

\* ContrarianStrategy.reset
ContrarianReset(ag) == ResetPosition([ag EXCEPT !.step_count = 0])

\* `<=` and `>=` on floats: false when either side is nan
FloatLe(x, y) == x # NaN /\ y # NaN /\ Le(x, y)
FloatGe(x, y) == FloatLe(y, x)

\* abs() of a float
FloatAbs(x) == <<Abs(x[1]), x[2]>>

\* ContrarianStrategy._detect_spike: the move of the last close of the window
\* against the one before, with the last volume against the average before it
DetectSpike(ag, closes, volumes) ==
    IF Len(closes) < 5 THEN [is_spike |-> FALSE, info |-> None]
    ELSE
    LET n == Len(closes)
        pct_change == NpDiv(Sub(closes[n], closes[n - 1]), closes[n - 1])
        avg_volume == IF Len(volumes) > 20
                      THEN Mean(SubSeq(volumes, Len(volumes) - 19, Len(volumes) - 1))
                      ELSE Mean(SubSeq(volumes, 1, Len(volumes) - 1))
        current_volume == volumes[Len(volumes)]
        volume_ratio == IF Gt(avg_volume, Zero)
                        THEN Div(current_volume, avg_volume) ELSE One
    IN  [is_spike |-> /\ FloatGe(FloatAbs(pct_change), ag.price_spike_threshold)
                      /\ FloatGe(volume_ratio, ag.volume_multiplier),
         info |-> [pct_change |-> pct_change, volume_ratio |-> volume_ratio,
                   direction |-> IF Gt(pct_change, Zero) THEN "UP" ELSE "DOWN"]]

\* ContrarianStrategy._assess_manipulation
AssessManipulation(ag, spike_info, sentiment) ==
    \/ Gt(spike_info.pct_change, Zero) /\ Gt(sentiment, ag.sentiment_extreme)
    \/ Lt(spike_info.pct_change, Zero) /\ Lt(sentiment, Neg(ag.sentiment_extreme))
    \/ Gt(spike_info.volume_ratio, Mul(ag.volume_multiplier, Rat(2, 1)))

\* the time exit taken one decision late
TimeExit_OneLate(hold_counter, max_hold_periods) == hold_counter > max_hold_periods

\* ContrarianStrategy.decide, the time-based exit
TimeExit(hold_counter, max_hold_periods) == hold_counter >= max_hold_periods

\* ContrarianStrategy.decide, the branch taken while a position is held
ManagePosition(ag0, current_price) ==
    LET ag == [ag0 EXCEPT !.hold_counter = ag0.hold_counter + 1]
        pnl_pct == NpDiv(Sub(current_price, ag.entry_price), ag.entry_price)
    IN  IF FloatLe(pnl_pct, Neg(ag.stop_loss_pct))
        THEN [agent |-> ResetPosition(ag), action |-> SELL]
        ELSE IF TimeExit(ag.hold_counter, ag.max_hold_periods)
        THEN [agent |-> ResetPosition(ag), action |-> SELL]
        ELSE IF FloatGe(pnl_pct, ag.price_spike_threshold)
        THEN [agent |-> ResetPosition(ag), action |-> SELL]
        ELSE [agent |-> ag, action |-> HOLD]

\* ContrarianStrategy.decide, the branch taken while no position is held
SeekEntry(ag, observation) ==
    LET spike == DetectSpike(ag, observation.prices, observation.volumes)
    IN  IF ~spike.is_spike
        THEN [agent |-> ag, action |-> HOLD]
        ELSE IF ~AssessManipulation(ag, spike.info, observation.sentiment)
        THEN [agent |-> ag, action |-> HOLD]
        ELSE IF spike.info.direction = "UP"
        THEN [agent |-> ag, action |-> HOLD]
        ELSE [agent |-> [ag EXCEPT !.entry_price = observation.current_price,
                                   !.hold_counter = 0,
                                   !.position_direction = "contrarian_long"],
              action |-> BUY]

\* ContrarianStrategy.decide
ContrarianDecide(ag0, observation) ==
    LET ag == [ag0 EXCEPT !.step_count = ag0.step_count + 1]
    IN  IF "prices" \notin DOMAIN observation \/ Len(observation.prices) < 10
        THEN [agent |-> ag, action |-> HOLD]
        ELSE IF Gt(observation.position, Zero)
        THEN ManagePosition(ag, observation.current_price)
        ELSE SeekEntry(ag, observation)

\* agent.decide(observation) on whichever agent drives the run
Decide(ag, observation) ==
    IF ag.name = "BuyHold" THEN BuyHoldDecide(ag, observation)
    ELSE ContrarianDecide(ag, observation)

\* run_backtest: the agent is created and reset, the engine is constructed
BacktestInit ==
    /\ EngineInit
    /\ agent = BuyHoldReset(BuyHoldAgent)

\* run_backtest: observation = env.reset(), once, before the loop
BacktestEnvReset ==
    /\ ~everReset
    /\ Reset
    /\ UNCHANGED agent

\* run_backtest: one turn of the loop, agent.decide then env.step
BacktestStep ==
    /\ everReset
    /\ ~done
    /\ \E d \in {Decide(agent, result.observation)} :
        /\ agent' = d.agent
        /\ \E fill_ts \in FillTimestamps(StepTimestamp) : Step(d.action, fill_ts)

\* run_backtest: `fill.total_cost - fill.quantity * fill.price` of a SELL fill
FillPnl(fill) == Sub(fill.total_cost, Mul(fill.quantity, fill.price))

\* run_backtest: the P&L list collected from the SELL fills of the history
SellFillPnls(history) ==
    LET IsSell(f) == f.side = "SELL"
        sells == SelectSeq(history, IsSell)
    IN  [k \in 1..Len(sells) |-> FillPnl(sells[k])]

\* every fill of the history counted as a trade
BacktestTradePnls_AllFills(history, equity_curve_, initial_capital) ==
    [k \in 1..Len(history) |-> FillPnl(history[k])]

\* run_backtest: the P&L list handed to calculate_all; without a SELL fill it
\* is the one value `equity_curve[-1] - initial_capital`
BacktestTradePnls(history, equity_curve_, initial_capital) ==
    LET pnls == SellFillPnls(history)
    IN  IF pnls = <<>> /\ equity_curve_ # <<>>
        THEN <<Sub(Last(equity_curve_), initial_capital)>>
        ELSE pnls

\* run_backtest: after the loop, the metrics of the run
BacktestSummarize ==
    /\ done
    /\ result.op = "step"
    /\ \E pnls \in {BacktestTradePnls(exchange.trade_history, equity_curve,
                                       cfg.initial_capital)} :
        result' = [op |-> "run_backtest", raised |-> "none", trade_pnls |-> pnls,
                   summary |-> calculate_all(cfg.initial_capital, equity_curve, pnls)]
    /\ UNCHANGED <<data, cfg, exchange, envVars, everReset, agent>>

BacktestNext == BacktestEnvReset \/ BacktestStep \/ BacktestSummarize

BacktestSpec == BacktestInit /\ [][BacktestNext]_vars

\* C21: in a run driven by BuyHoldAgent the first step is a BUY that invests
\* all of the capital: after it cash is below the minimal trade threshold and
\* the whole portfolio value is held in the position.
C21_FirstStepInvestsAll ==
    step_log # <<>> =>
        /\ step_log[1].action = "BUY"
        /\ Lt(step_log[1].cash, MinTrade)
        /\ step_log[1].portfolio_value = Mul(step_log[1].position_qty, step_log[1].price)


(***************************************************************************)
(* A backtest driven by ContrarianStrategy.  The strategy reads at least   *)
(* ten rows of history, so the window is ten rows; the rows before the     *)
(* last window row trade at one price and unit volume, the last window row *)
(* may move on a volume spike, and the rows the run acts on move freely.   *)
(***************************************************************************)
\* max_hold_periods handed to the constructor
MaxHolds == {1, 2}
ContrarianStrategies ==
    {ContrarianStrategy(Rat(3, 100), Rat(3, 1), Rat(1, 2), h, Rat(3, 100)) :
        h \in MaxHolds}
\* a capital that buys dust at the higher price, and one that buys a position
ContrarianCapitals == {Rat(4, 1), Rat(128, 1)}
ContrarianConfigs ==
    {[initial_capital |-> ic, fee_rate |-> f[1], slippage |-> f[2],
      risk_per_trade_pct |-> z[1], window_size |-> 10, symbol |-> "BTCUSDT",
      hold_penalty_rate |-> z[2]] :
         ic \in ContrarianCapitals, f \in Frictions, z \in Sizings}
\* volume of the last window row against unit volume before it
SpikeVolumes == {One, Rat(3, 1), Rat(7, 1)}
ContrarianDatasets ==
    {VolumeDataset([k \in 1..(9 + NRows) |-> IF k <= 9 THEN b ELSE t[k - 9]],
                   [k \in 1..(9 + NRows) |-> IF k = 10 THEN v ELSE One]) :
        b \in Prices, t \in [1..NRows -> Prices], v \in SpikeVolumes}

\* run_backtest('contrarian'): the strategy is created and reset, the engine
\* is constructed
ContrarianInit ==
    /\ data \in ContrarianDatasets
    /\ cfg \in ContrarianConfigs
    /\ EngineNew
    /\ agent \in {ContrarianReset(a) : a \in ContrarianStrategies}

ContrarianSpec == ContrarianInit /\ [][BacktestNext]_vars

\* step k of the run is a BUY that opened a position
OpensPosition(k) ==
    /\ step_log[k].action = "BUY"
    /\ Gt(step_log[k].position_qty, Dust)

\* the steps after step k that were SELLs
SellsAfter(k) == {j \in (k + 1)..Len(step_log) : step_log[j].action = "SELL"}

\* C31: in a run driven by ContrarianStrategy, after a BUY that opens a
\* position the strategy issues SELL no later than its max_hold_periods-th
\* following decision; until then it only HOLDs and the quantity is
\* untouched, and that SELL leaves no quantity in the engine's position.
C31_HeldNoLongerThanLimit ==
    \A k \in 1..Len(step_log) :
        OpensPosition(k) =>
            IF SellsAfter(k) = {}
            THEN /\ Len(step_log) - k < agent.max_hold_periods
                 /\ \A i \in (k + 1)..Len(step_log) :
                        /\ step_log[i].action = "HOLD"
                        /\ step_log[i].position_qty = step_log[k].position_qty
            ELSE LET j == CHOOSE s \in SellsAfter(k) :
                              \A s2 \in SellsAfter(k) : s <= s2
                 IN  /\ j - k <= agent.max_hold_periods
                     /\ step_log[j].position_qty = Zero
                     /\ \A i \in (k + 1)..(j - 1) :
                            /\ step_log[i].action = "HOLD"
                            /\ step_log[i].position_qty = step_log[k].position_qty

\* a position opened, held for one decision at an unchanged price and sold on
\* the time limit at the second
C31_Witness ==
    /\ agent.max_hold_periods = 2
    /\ \E k \in 1..(Len(step_log) - 2) :
        /\ OpensPosition(k)
        /\ step_log[k + 1].action = "HOLD"
        /\ step_log[k + 2].action = "SELL"
        /\ step_log[k + 1].price = step_log[k].price
        /\ step_log[k + 2].price = step_log[k].price
        /\ step_log[k + 2].position_qty = Zero


\* C32: between reset() and TERMINAL the reward of every step is <= 0, the
\* score never increases from one step to the next, and it never exceeds the
\* score reset() set.
C32_RewardNeverPositive ==
    everReset =>
        /\ \A k \in 1..Len(step_log) : Le(step_log[k].reward, Zero)
        /\ \A k \in 1..Len(score_history) :
               Le(score_history[k], IF k = 1 THEN ScoreMax ELSE score_history[k - 1])


\* the fees of the BUY fills of a trade history
BuyFees(history) ==
    LET IsBuy(f) == f.side = "BUY"
        buys == SelectSeq(history, IsBuy)
    IN  SumSeq([k \in 1..Len(buys) |-> buys[k].fee])

\* avg_entry_price * quantity of the engine's position, 0 without a position
PositionCostBasis(ex) ==
    IF cfg.symbol \in DOMAIN ex.positions
    THEN Mul(ex.positions[cfg.symbol].avg_entry_price,
             ex.positions[cfg.symbol].quantity)
    ELSE Zero

\* C33: after any sequence of steps from reset(), cash + avg_entry_price *
\* quantity + the fees of all BUY fills + the cumulative hold penalty equals
\* initial_capital + realized P&L; and when no position is open, cash -
\* initial_capital equals realized P&L minus the BUY fees and hold penalties.
C33_AccountingIdentity ==
    everReset =>
        /\ Add(Add(exchange.cash, PositionCostBasis(exchange)),
               Add(BuyFees(exchange.trade_history), total_hold_penalty))
             = Add(exchange.initial_capital, exchange.realized_pnl)
        /\ (\A s \in DOMAIN exchange.positions : ~is_open(exchange.positions[s]))
             => Sub(exchange.cash, exchange.initial_capital)
                  = Sub(exchange.realized_pnl,
                        Add(BuyFees(exchange.trade_history), total_hold_penalty))


\* the SELL fills of a trade history, in order
SellFills(history) ==
    LET IsSell(f) == f.side = "SELL"
    IN  SelectSeq(history, IsSell)

C37_SummaryCountsSellFills ==
    result.op = "run_backtest" =>
        LET sells == SellFills(exchange.trade_history)
        IN  IF sells # <<>>
            THEN /\ result.summary.total_trades = Len(sells)
                 /\ Len(result.trade_pnls) = Len(sells)
            ELSE equity_curve # <<>> =>
                 /\ result.summary.total_trades = 1
                 /\ result.trade_pnls =
                        <<Sub(Last(equity_curve), cfg.initial_capital)>>
                 /\ result.summary.winning_trades + result.summary.losing_trades = 1

\* a summarized run whose only fill is a BUY: one trade is reported, at a loss
C37_Witness ==
    /\ result.op = "run_backtest"
    /\ Len(exchange.trade_history) = 1
    /\ exchange.trade_history[1].side = "BUY"
    /\ result.summary.total_trades = 1
    /\ Lt(result.trade_pnls[1], Zero)
    /\ result.summary.losing_trades = 1


\* The observation as a function of the rows up to the cursor alone: `rows`
\* is the dataset cut after the row at the cursor.
ObservationOfPrefix(rows, ex, sc) ==
    LET c == Len(rows) - 1
        start == IF c - cfg.window_size > 0 THEN c - cfg.window_size ELSE 0
    IN  [prices |-> [k \in 1..(c - start) |-> rows[start + k].close],
         volumes |-> [k \in 1..(c - start) |-> rows[start + k].volume],
         returns |-> [k \in 1..(c - start) |->
                        IF start + k = 1 THEN Zero
                        ELSE Sub(Div(rows[start + k].close,
                                     rows[start + k - 1].close), One)],
         current_price |-> rows[c + 1].close,
         position |-> PositionQty(ex),
         portfolio_value |-> get_portfolio_value(ex, PriceMap(rows[c + 1].close)),
         cash |-> ex.cash,
         sentiment |-> rows[c + 1].sentiment_score,
         score |-> sc,
         timestamp |-> rows[c + 1].timestamp,
         step |-> c]

\* the last call returned an observation
ObservationReturned(res) ==
    /\ res.op \in {"reset", "step"}
    /\ res.raised = "none"
    /\ res.observation # EmptyObservation

\* C35: the observation returned with the cursor at row c is a function of
\* the rows up to c and of the engine's ledger and score; and the step that
\* follows acts on the row whose close and timestamp that observation
\* carried: its log record has that price and timestamp, and a fill is
\* executed at that price (moved by the slippage) and stamped with that time.
C35_NoLookahead ==
    [][/\ ObservationReturned(result') =>
              result'.observation =
                  ObservationOfPrefix(SubSeq(data, 1, current_step' + 1),
                                      exchange', score')
       /\ (ObservationReturned(result) /\ result'.op = "step"
              /\ result'.raised = "none") =>
              /\ Last(step_log').price = result.observation.current_price
              /\ Last(step_log').timestamp = result.observation.timestamp
              /\ result'.info.fill # None =>
                     /\ result'.info.fill.timestamp = result.observation.timestamp
                     /\ result'.info.fill.price =
                            IF result'.info.fill.side = "BUY"
                            THEN BuyExecutionPrice(result.observation.current_price,
                                                   exchange.slippage)
                            ELSE SellExecutionPrice(result.observation.current_price,
                                                    exchange.slippage)]_vars

\* an observation whose current price differs from the close of the row after
\* it, followed by a step that filled at the observed price
C35_Witness ==
    /\ result.op = "step"
    /\ result.raised = "none"
    /\ result.info.fill # None
    /\ Len(step_log) >= 2
    /\ result.info.fill.price = Last(step_log).price
    /\ current_step < Len(data)
    /\ Row(current_step).close # Last(step_log).price
    /\ step_log[Len(step_log) - 1].price # Last(step_log).price


\* C36: a step() in ACTIVE raises no error, and with an action outside
\* {0, 1, 2} it trades nothing and charges nothing (ledger, trade_pnls,
\* cumulative penalty and score unchanged, reward 0), yet appends the
\* unchanged value to the trajectory and a record named "UNKNOWN" to the step
\* log, advances the cursor and ends the run when the last row is reached.
C36_UnknownActionIsNoOp ==
    [][(everReset /\ ~done /\ result'.op = "step") =>
          /\ result'.raised = "none"
          /\ result'.action \notin {HOLD, BUY, SELL} =>
                 /\ exchange' = exchange
                 /\ trade_pnls' = trade_pnls
                 /\ total_hold_penalty' = total_hold_penalty
                 /\ score' = score
                 /\ score_history' = Append(score_history, score)
                 /\ result'.reward = Zero
                 /\ result'.info.fill = None
                 /\ result'.info.hold_penalty = Zero
                 /\ equity_curve' =
                        Append(equity_curve,
                               get_portfolio_value(exchange,
                                                   PriceMap(Row(current_step).close)))
                 /\ Len(step_log') = Len(step_log) + 1
                 /\ Last(step_log').action = "UNKNOWN"
                 /\ Last(step_log').hold_penalty = Zero
                 /\ Last(step_log').reward = Zero
                 /\ current_step' = current_step + 1
                 /\ done' = (current_step' >= Len(data) - 1)
                 /\ result'.terminated = done']_vars

\* an unknown action stepped with enough cash for a HOLD to have been
\* charged, on the step that ends the run
C36_Witness ==
    /\ everReset
    /\ done
    /\ result.op = "step"
    /\ result.raised = "none"
    /\ result.action = UNKNOWN
    /\ Last(step_log).action = "UNKNOWN"
    /\ PenaltyApplies(HoldPenalty(exchange.cash, cfg.hold_penalty_rate))

=============================================================================
